---- MODULE Spec2Model ----
(***************************************************************************)
(* Subscription gating of next15-starter: the Dashboard page               *)
(* (src/app/dashboard/page.tsx), the Profile page                          *)
(* (src/app/profile/page.tsx) and the useTrialStatus hook                  *)
(* (src/hooks/useTrialStatus.ts).                                          *)
(*                                                                         *)
(* React is modelled as it schedules the code: a render commits new hook   *)
(* values and marks the effects whose dependencies changed; the marked     *)
(* effects are flushed together, in declaration order, before the next     *)
(* render; timers and awaited promises resume as separate steps.           *)
(***************************************************************************)
EXTENDS Integers, Sequences, FiniteSets, TLC

\* ------------------------------------------------------------------ bounds
MaxOrphans == 1        \* torn-down auto-refresh closures of Profile still running
MaxRuns  == 2          \* checkTrialStatus calls started by useTrialStatus

\* --------------------------------------------------------------- constants
MAX_REFRESH_ATTEMPTS == 3

NoUser == "null"
Users  == {"u1", "u2"}
AuthUsers == {NoUser} \cup Users
\* the pages read only whether a user is signed in
PageUsers == {NoUser, "u1"}

Statuses == {"active", "trialing", "canceled", "past_due"}
NoSub == [status |-> "none", stripe_subscription_id |-> "none", cancel_at_period_end |-> FALSE]
Subscriptions ==
    [status : Statuses, stripe_subscription_id : {"none", "sub_1"}, cancel_at_period_end : BOOLEAN]

\* the values of subscription the effects of the two pages tell apart: no
\* record, an entitling status, another status, each with and without a
\* stripe_subscription_id and cancel_at_period_end
LoadedSubscriptions ==
    {sub \in Subscriptions : sub.status \in {"active", "canceled"}} \cup {NoSub}

SyncErrorMsg    == "Unable to load subscription details"
TimeoutErrorMsg == "Loading subscription is taking longer than expected. Please refresh the page."

DashEffectNames    == {"subscriptionCheck", "authCheck", "refresh", "timeout"}
ProfileEffectNames == {"sync", "autoRefresh", "authCheck", "refresh"}

VARIABLES
    \* useAuth()
    user, isSubscriber, isAuthLoading,
    \* useSubscription() of the mounted page
    subscription, isSubLoading,
    \* next/navigation
    page, navTarget, routerCalls,
    \* Dashboard
    hasCheckedSubscription, authTimeout, dashEffects, dashTimer, refreshAwait,
    \* ProfileContent
    error, profEffects, loop, orphans, autoRefreshCalls,
    \* ProfileContent: the cancel and reactivate handlers, syncWithStripe
    isCancelModalOpen, isCancelling, pending, invoked, unreconciled, syncCall,
    \* useTrialStatus and the stores it reads
    trialMounted, trialStatus, isLoading, subscriptionsTable, userTrials, runs

authVars  == <<user, isSubscriber, isAuthLoading>>
subVars   == <<subscription, isSubLoading>>
navVars   == <<page, navTarget, routerCalls>>
dashVars  == <<hasCheckedSubscription, authTimeout, dashEffects, dashTimer, refreshAwait>>
profVars  == <<error, profEffects, loop, orphans, autoRefreshCalls>>
billVars  == <<isCancelModalOpen, isCancelling, pending, invoked, unreconciled, syncCall>>
trialVars == <<trialMounted, trialStatus, isLoading, subscriptionsTable, userTrials, runs>>
vars == <<authVars, subVars, navVars, dashVars, profVars, billVars, billVars, trialVars>>

\* =================================================================
\* Dashboard (src/app/dashboard/page.tsx)
\* An effect reads the hook values of the render that scheduled it: they are
\* passed as u (user), s (isSubscriber), l (isAuthLoading), sub
\* (subscription) and subl (isSubLoading).
\* =================================================================

\* ['active', 'trialing'].includes(subscription?.status || '')
hasValidSubscription(sub) == sub.status \in {"active", "trialing"}

\* Mutation of the first check: it redirects only when there is no record
SubscriptionCheckRedirects_OnlyWithoutRecord(sub, subl) ==
    /\ ~subl
    /\ sub.status = "none"

\* First check: the subscription effect calls router.replace('/profile')
SubscriptionCheckRedirects(sub, subl) ==
    /\ ~subl
    /\ ~hasValidSubscription(sub)

\* Second check: the auth effect enters its if (!hasCheckedSubscription) block
AuthCheckEnters(l, checked) ==
    /\ ~l
    /\ ~checked

\* ... and inside it calls router.replace('/profile')
AuthCheckRedirects(u, s, l) ==
    \/ u = NoUser
    \/ (~s /\ ~l)

\* the condition the AUTH_TIMEOUT callback tests
AuthTimeoutCond(u, l, subl) == u = NoUser /\ (l \/ subl)

\* the early return of the render function: the "Verifying access..." screen
DashShowsSpinner ==
    /\ user = NoUser
    /\ (isAuthLoading \/ isSubLoading)
    /\ ~hasCheckedSubscription

DashView ==
    IF DashShowsSpinner
    THEN (IF authTimeout THEN "hint" ELSE "verifying")
    ELSE "content"

\* the effects of Dashboard whose dependency arrays see a change
DashAuthDeps(u, s, l) ==
    (IF u # user \/ s # isSubscriber \/ l # isAuthLoading THEN {"authCheck"} ELSE {})
    \cup (IF u # user THEN {"refresh"} ELSE {})
    \cup (IF u # user \/ l # isAuthLoading THEN {"timeout"} ELSE {})

DashSubDeps(sub, subl) ==
    (IF sub # subscription \/ subl # isSubLoading THEN {"subscriptionCheck"} ELSE {})
    \cup (IF sub # subscription THEN {"authCheck"} ELSE {})
    \cup (IF subl # isSubLoading THEN {"timeout"} ELSE {})

TimerOff == [armed |-> FALSE, cond |-> FALSE]

\* The effects of one commit, run in declaration order.
\* setHasCheckedSubscription(true) re-renders and re-runs the auth effect,
\* which then finds hasCheckedSubscription set and does nothing.
DashFlush(effects, u, s, l, sub, subl) ==
    LET subRedirect  == "subscriptionCheck" \in effects /\ SubscriptionCheckRedirects(sub, subl)
        authEnters   == "authCheck" \in effects /\ AuthCheckEnters(l, hasCheckedSubscription)
        authRedirect == authEnters /\ AuthCheckRedirects(u, s, l)
        startRefresh == "refresh" \in effects /\ u # NoUser
    IN  /\ hasCheckedSubscription' = (hasCheckedSubscription \/ authEnters)
        /\ routerCalls' = (IF subRedirect THEN {"dashboard.subscriptionCheck"} ELSE {})
                          \cup (IF authRedirect THEN {"dashboard.authCheck"} ELSE {})
        /\ navTarget' = IF subRedirect \/ authRedirect THEN "/profile" ELSE navTarget
        /\ refreshAwait' = (refreshAwait \/ startRefresh)
        /\ dashTimer' = IF "timeout" \in effects
                        THEN [armed |-> TRUE, cond |-> AuthTimeoutCond(u, l, subl)]
                        ELSE dashTimer
        /\ dashEffects' = {}
        /\ UNCHANGED <<authTimeout, profVars, billVars>>

\* the effects of the first render run
FlushDashEffects ==
    /\ page = "dashboard"
    /\ dashEffects # {}
    /\ DashFlush(dashEffects, user, isSubscriber, isAuthLoading, subscription, isSubLoading)
    /\ UNCHANGED <<authVars, subVars, page, trialVars>>

\* setTimeout callback of the fourth effect
DashTimerFire ==
    /\ page = "dashboard"
    /\ dashTimer.armed
    /\ dashTimer' = TimerOff
    /\ authTimeout' = (authTimeout \/ dashTimer.cond)
    /\ routerCalls' = {}
    /\ UNCHANGED <<authVars, subVars, page, navTarget, hasCheckedSubscription,
                   dashEffects, refreshAwait, profVars, trialVars, billVars>>

\* how a call of useSubscription's fetchSubscription settles: TRUE when it
\* resolves, FALSE when it rejects (the hook is not in this repository's
\* sources; its contract says a refresh returns the record or fails)
FetchOutcomes == BOOLEAN

\* refreshSubscription resumes after await fetchSubscription(): resolved, it
\* runs setHasCheckedSubscription(true); rejected, it ends.
DashRefreshSettle(ok) ==
    /\ page = "dashboard"
    /\ refreshAwait
    /\ refreshAwait' = FALSE
    /\ hasCheckedSubscription' = (hasCheckedSubscription \/ ok)
    /\ routerCalls' = {}
    /\ UNCHANGED <<authVars, subVars, page, navTarget, authTimeout, dashTimer, dashEffects,
                   profVars, trialVars, billVars>>

\* =================================================================
\* ProfileContent (src/app/profile/page.tsx)
\* =================================================================

\* const { ..., isLoading: isLoadingSubscription, ... } = useSubscription()
isLoadingSubscription == isSubLoading

\* One run of the auto-refresh effect: its closure (refreshAttempts, the
\* isLoadingSubscription of its render) and where its attemptRefresh chain is:
\*   none     the effect has not run, or the chain has ended
\*   idle     no timer was set
\*   timer    setTimeout(attemptRefresh, REFRESH_INTERVAL) is pending
\*   await    attemptRefresh is suspended on await fetchSubscription()
\* loop is the closure of the latest run; orphans are the closures whose
\* cleanup has run while their attemptRefresh was suspended.
NoLoop ==
    [phase |-> "none", refreshAttempts |-> 0, isLoadingSubscription |-> FALSE]

NewLoop(loading) ==
    [phase |-> IF loading THEN "timer" ELSE "idle",
     refreshAttempts |-> 0, isLoadingSubscription |-> loading]

\* attemptRefresh, from its call by the timer to its await or to its setError
AttemptRefreshStep(l) ==
    IF l.refreshAttempts < MAX_REFRESH_ATTEMPTS
    THEN [l EXCEPT !.refreshAttempts = l.refreshAttempts + 1, !.phase = "await"]
    ELSE [l EXCEPT !.phase = "gaveUp"]

\* attemptRefresh after await fetchSubscription() resolved
AfterFetchStep(l) ==
    IF l.isLoadingSubscription
    THEN [l EXCEPT !.phase = "timer"]
    ELSE [l EXCEPT !.phase = "idle"]

\* return () => { if (timeoutId) clearTimeout(timeoutId); }
\* clears a pending timer; a suspended attemptRefresh is not stopped
SurvivesCleanup(l) == l.phase = "await"

FreeSlots == {k \in 1..MaxOrphans : orphans[k] = NoLoop}

\* the cleanup of the latest run: its closure is dropped or kept as an orphan
OrphansAfterCleanup ==
    IF SurvivesCleanup(loop)
    THEN [orphans EXCEPT ![CHOOSE k \in FreeSlots : \A j \in FreeSlots : k <= j] = loop]
    ELSE orphans

\* the model tracks MaxOrphans orphans: a cleanup waits while none is free
CanCleanup == SurvivesCleanup(loop) => FreeSlots # {}

\* autoRefreshCalls: the fetchSubscription() calls attemptRefresh has made
\* since the mount or the last change of isLoadingSubscription, counted up to
\* one more than MAX_REFRESH_ATTEMPTS
CountCall(n) == IF n <= MAX_REFRESH_ATTEMPTS THEN n + 1 ELSE n

ProfileAuthDeps(u) ==
    IF u # user THEN {"authCheck", "refresh"} ELSE {}

ProfileSubDeps(sub, subl) ==
    (IF sub.stripe_subscription_id # subscription.stripe_subscription_id THEN {"sync"} ELSE {})
    \cup (IF subl # isSubLoading THEN {"autoRefresh"} ELSE {})

\* if (subscription?.stripe_subscription_id): syncWithStripe is called
CallsSync(sub) == sub.stripe_subscription_id # "none"

\* if (user?.id) fetchSubscription()
CallsFetch(u) == u # NoUser

\* if (!user) router.push('/login')
ProfileAuthRedirects(u) == u = NoUser

\* The effects of one commit, run in declaration order. syncWithStripe is
\* called without await: threw is its synchronous outcome.
ProfileFlush(effects, u, sub, subl, threw) ==
    LET rerun   == "autoRefresh" \in effects
        toLogin == "authCheck" \in effects /\ ProfileAuthRedirects(u)
        syncs   == "sync" \in effects /\ CallsSync(sub)
        fetches == "refresh" \in effects /\ CallsFetch(u)
    IN  /\ threw => syncs
        /\ syncCall' = IF syncs THEN (IF threw THEN "none" ELSE "pending") ELSE syncCall
        /\ unreconciled' = IF syncs \/ fetches THEN "none" ELSE unreconciled
        /\ UNCHANGED <<isCancelModalOpen, isCancelling, pending, invoked>>
        /\ rerun => CanCleanup
        /\ error' = IF threw THEN SyncErrorMsg ELSE error
        /\ loop' = IF rerun THEN NewLoop(subl) ELSE loop
        /\ orphans' = IF rerun THEN OrphansAfterCleanup ELSE orphans
        /\ routerCalls' = IF toLogin THEN {"profile.authCheck"} ELSE {}
        /\ navTarget' = IF toLogin THEN "/login" ELSE navTarget
        /\ profEffects' = {}
        /\ autoRefreshCalls' = IF subl # isSubLoading THEN 0 ELSE autoRefreshCalls
        /\ UNCHANGED dashVars

\* the effects of the first render run
FlushProfileEffects(threw) ==
    /\ page = "profile"
    /\ profEffects # {}
    /\ ProfileFlush(profEffects, user, subscription, isSubLoading, threw)
    /\ UNCHANGED <<authVars, subVars, page, trialVars>>

\* the timer of the latest run fires and calls attemptRefresh
AttemptRefresh ==
    /\ loop.phase = "timer"
    /\ LET l == AttemptRefreshStep(loop)
       IN  IF l.phase = "gaveUp"
           THEN /\ loop' = NoLoop
                /\ error' = TimeoutErrorMsg
                /\ UNCHANGED autoRefreshCalls
           ELSE /\ loop' = l
                /\ autoRefreshCalls' = CountCall(autoRefreshCalls)
                /\ UNCHANGED error
    /\ unreconciled' = IF loop'.phase = "await" THEN "none" ELSE unreconciled
    /\ routerCalls' = {}
    /\ UNCHANGED <<authVars, subVars, page, navTarget, dashVars, profEffects, orphans, trialVars,
                   isCancelModalOpen, isCancelling, pending, invoked, syncCall>>

\* the fetchSubscription() awaited by the latest run settles: resolved,
\* attemptRefresh goes on; rejected, it ends
FetchSettle(ok) ==
    /\ loop.phase = "await"
    /\ loop' = IF ok THEN AfterFetchStep(loop) ELSE NoLoop
    /\ routerCalls' = {}
    /\ UNCHANGED <<authVars, subVars, page, navTarget, dashVars, error, profEffects,
                   orphans, autoRefreshCalls, trialVars, billVars>>

\* the timer an orphan set after its cleanup fires and calls attemptRefresh
OrphanAttemptRefresh(k) ==
    /\ orphans[k].phase = "timer"
    /\ LET l == AttemptRefreshStep(orphans[k])
       IN  IF l.phase = "gaveUp"
           THEN /\ orphans' = [orphans EXCEPT ![k] = NoLoop]
                \* setError on an unmounted component changes nothing
                /\ error' = IF page = "profile" THEN TimeoutErrorMsg ELSE error
                /\ UNCHANGED autoRefreshCalls
           ELSE /\ orphans' = [orphans EXCEPT ![k] = l]
                /\ autoRefreshCalls' = CountCall(autoRefreshCalls)
                /\ UNCHANGED error
    /\ unreconciled' = IF orphans'[k].phase = "await" THEN "none" ELSE unreconciled
    /\ routerCalls' = {}
    /\ UNCHANGED <<authVars, subVars, page, navTarget, dashVars, profEffects, loop, trialVars,
                   isCancelModalOpen, isCancelling, pending, invoked, syncCall>>

\* the fetchSubscription() awaited by an orphan settles
OrphanFetchSettle(k, ok) ==
    /\ orphans[k].phase = "await"
    /\ orphans' = [orphans EXCEPT ![k] = IF ok THEN AfterFetchStep(orphans[k]) ELSE NoLoop]
    /\ routerCalls' = {}
    /\ UNCHANGED <<authVars, subVars, page, navTarget, dashVars, error, profEffects,
                   loop, autoRefreshCalls, trialVars, billVars>>

\* what the subscription section shows
ProfileView ==
    IF user = NoUser THEN "redirecting"
    ELSE IF error # "none" THEN "error"
    ELSE IF isLoadingSubscription THEN "spinner"
    ELSE IF subscription # NoSub THEN "details"
    ELSE "empty"

\* the "Go to Dashboard" button is rendered
OffersGoToDashboard ==
    /\ ProfileView = "details"
    /\ subscription.status # "canceled"
    /\ ~subscription.cancel_at_period_end
    /\ subscription.status \in {"active", "trialing"}

\* onClick={() => router.push('/dashboard')}
GoToDashboard ==
    /\ page = "profile"
    /\ OffersGoToDashboard
    /\ navTarget' = "/dashboard"
    /\ routerCalls' = {"profile.goToDashboard"}
    /\ UNCHANGED <<authVars, subVars, page, dashVars, profVars, trialVars, billVars>>

\* how the promise returned by useSubscription's syncWithStripe settles:
\* TRUE when it resolves, FALSE when it rejects (the hook is not in this
\* repository's sources; its contract says reconciliation can fail)
SyncOutcomes == BOOLEAN

\* the promise syncWithStripe returned settles; the effect attached no
\* handler to it, so nothing else changes
SyncSettle(ok) ==
    /\ page = "profile"
    /\ syncCall = "pending"
    /\ syncCall' = IF ok THEN "none" ELSE "rejected"
    /\ routerCalls' = {}
    /\ UNCHANGED <<authVars, subVars, page, navTarget, dashVars, profVars, trialVars,
                   isCancelModalOpen, isCancelling, pending, invoked, unreconciled>>

\* the "Resubscribe" link is rendered
OffersResubscribe ==
    /\ ProfileView = "details"
    /\ subscription.status = "canceled"

\* Mutation: the canceled branch is not tested first
OffersResume_WhateverStatus ==
    /\ ProfileView = "details"
    /\ subscription.cancel_at_period_end

\* the "Resume Subscription" button is rendered
OffersResume ==
    /\ ProfileView = "details"
    /\ subscription.status # "canceled"
    /\ subscription.cancel_at_period_end

\* the "Cancel Subscription" button is rendered
OffersCancel ==
    /\ ProfileView = "details"
    /\ subscription.status # "canceled"
    /\ ~subscription.cancel_at_period_end
    /\ subscription.status \in {"active", "trialing"}

\* onClick={() => setIsCancelModalOpen(true)}
OpenCancelModal ==
    /\ page = "profile"
    /\ OffersCancel
    /\ isCancelModalOpen' = TRUE
    /\ routerCalls' = {}
    /\ UNCHANGED <<authVars, subVars, page, navTarget, dashVars, profVars, trialVars,
                   isCancelling, pending, invoked, unreconciled, syncCall>>

\* Mutation: the handlers go on whenever there is a subscription record
HasStripeId_AnyRecord(sub) == sub # NoSub

\* if (!subscription?.stripe_subscription_id) return;
HasStripeId(sub) == sub.stripe_subscription_id # "none"

\* Mutation: an acknowledged request updates the local record at once
LocalAfterRequest_Optimistic(sub, kind, acknowledged) ==
    IF acknowledged THEN [sub EXCEPT !.cancel_at_period_end = (kind = "cancel")] ELSE sub

\* the local subscription record after a handler has run: the handlers
\* call no setter of it
LocalAfterRequest(sub, kind, acknowledged) == sub

\* how a fetch() of a billing endpoint ends: response.ok, a response that is
\* not ok, or a network error
Responses == {"ok", "notOk", "throw"}

\* handleCancelSubscription or handleReactivateSubscription is called and
\* runs to its await fetch(...)
HandlerStart(kind) ==
    /\ page = "profile"
    /\ profEffects = {}
    /\ user # NoUser
    /\ kind \notin pending
    /\ invoked' = kind
    /\ IF HasStripeId(subscription)
       THEN /\ pending' = pending \cup {kind}
            /\ isCancelling' = IF kind = "cancel" THEN TRUE ELSE isCancelling
       ELSE UNCHANGED <<pending, isCancelling>>
    /\ routerCalls' = {}
    /\ UNCHANGED <<authVars, subVars, page, navTarget, dashVars, profVars, trialVars,
                   isCancelModalOpen, unreconciled, syncCall>>

\* the handler resumes from await fetch(...): on response.ok it calls
\* router.refresh() (and handleCancelSubscription closes the modal); cancel
\* resets isCancelling in its finally block
HandlerSettle(kind, response) ==
    /\ page = "profile"
    /\ kind \in pending
    /\ pending' = pending \ {kind}
    /\ isCancelModalOpen' = IF kind = "cancel" /\ response = "ok" THEN FALSE ELSE isCancelModalOpen
    /\ isCancelling' = IF kind = "cancel" THEN FALSE ELSE isCancelling
    /\ routerCalls' = IF response = "ok" THEN {"profile." \o kind \o ".refresh"} ELSE {}
    /\ unreconciled' = IF response = "ok" THEN kind ELSE unreconciled
    /\ subscription' = LocalAfterRequest(subscription, kind, response = "ok")
    /\ UNCHANGED <<authVars, isSubLoading, page, navTarget, dashVars, profVars, trialVars,
                   invoked, syncCall>>

\* =================================================================
\* The hooks' values change, and navigation
\* =================================================================

\* the first render's effects have run
Mounted == page \in {"dashboard", "profile"} /\ dashEffects = {} /\ profEffects = {}

\* useAuth() returns new values { user, isSubscriber, isLoading }: the page
\* re-renders and the effects that depend on them run
AuthUpdate(u, s, l) ==
    /\ Mounted
    /\ <<u, s, l>> # <<user, isSubscriber, isAuthLoading>>
    /\ user' = u
    /\ isSubscriber' = s
    /\ isAuthLoading' = l
    /\ IF page = "dashboard"
       THEN DashFlush(DashAuthDeps(u, s, l), u, s, l, subscription, isSubLoading)
       ELSE ProfileFlush(ProfileAuthDeps(u), u, subscription, isSubLoading, FALSE)
    /\ UNCHANGED <<subVars, page, trialVars>>

\* useSubscription() returns new values { subscription, isLoading }
SubUpdate(sub, subl, threw) ==
    /\ Mounted
    /\ <<sub, subl>> # <<subscription, isSubLoading>>
    /\ subscription' = sub
    /\ isSubLoading' = subl
    /\ IF page = "dashboard"
       THEN /\ ~threw
            /\ DashFlush(DashSubDeps(sub, subl), user, isSubscriber, isAuthLoading, sub, subl)
       ELSE ProfileFlush(ProfileSubDeps(sub, subl), user, sub, subl, threw)
    /\ UNCHANGED <<authVars, page, trialVars>>

\* useSubscription() returns a new fetchSubscription function
FetchIdentityChange ==
    /\ Mounted
    /\ IF page = "dashboard"
       THEN DashFlush({"refresh"}, user, isSubscriber, isAuthLoading, subscription, isSubLoading)
       ELSE ProfileFlush({"autoRefresh", "refresh"}, user, subscription, isSubLoading, FALSE)
    /\ UNCHANGED <<authVars, subVars, page, trialVars>>

PageOf(target) ==
    CASE target = "/profile"   -> "profile"
      [] target = "/dashboard" -> "dashboard"
      [] target = "/login"     -> "login"

\* The router completes the pending navigation: the old page unmounts (its
\* effect cleanups run), the new page mounts with fresh state and all of its
\* effects to run.
Navigate ==
    /\ navTarget # "none"
    /\ page' = PageOf(navTarget)
    /\ navTarget' = "none"
    /\ routerCalls' = {}
    /\ subscription' = NoSub
    /\ isSubLoading' \in BOOLEAN
    /\ hasCheckedSubscription' = FALSE
    /\ authTimeout' = FALSE
    /\ dashTimer' = TimerOff
    /\ refreshAwait' = FALSE
    /\ dashEffects' = IF page' = "dashboard" THEN DashEffectNames ELSE {}
    /\ error' = "none"
    /\ profEffects' = IF page' = "profile" THEN ProfileEffectNames ELSE {}
    /\ page = "profile" => CanCleanup
    /\ loop' = NoLoop
    /\ autoRefreshCalls' = 0
    \* the closures of an unmounted Profile are followed until a page mounts again
    /\ orphans' = IF page' = "login" /\ page = "profile" THEN OrphansAfterCleanup
                  ELSE IF page' = "login" THEN orphans
                  ELSE [k \in 1..MaxOrphans |-> NoLoop]
    /\ syncCall' = "none"
    /\ UNCHANGED <<authVars, trialVars, isCancelModalOpen, isCancelling, pending, invoked,
                   unreconciled>>

\* =================================================================
\* useTrialStatus (src/hooks/useTrialStatus.ts)
\* =================================================================

PastTime   == "2020-01-01T00:00:00Z"
FutureTime == "2099-01-01T00:00:00Z"
TrialEndTimes == {PastTime, FutureTime}

\* user_trials.trial_end_time of the row a user has, when the user has one
TrialEndOf == [u \in Users |-> IF u = "u1" THEN PastTime ELSE FutureTime]

NoTrial == [trial_end_time |-> "null", is_trial_used |-> FALSE, exists |-> FALSE]
TrialRows(u) == [trial_end_time : {TrialEndOf[u]}, is_trial_used : BOOLEAN, exists : {TRUE}]

\* subscriptions.status of a user; "none" when the user has no row
TableStatuses == {"none", "active", "trialing"}

\* how a supabase call ends: data, a returned { error }, or a thrown exception
Outcomes == {"ok", "error", "throw"}

\* useState({ isInTrial: false, trialEndTime: null }), and the value set on
\* the subscribed, no-trial and catch paths
DefaultTrialStatus == [isInTrial |-> FALSE, trialEndTime |-> "null"]

\* Mutation: the trial is reported active while its end time is in the future
TrialFoundStatus_ActiveUntilEnd(trial) ==
    [isInTrial |-> trial.trial_end_time = FutureTime, trialEndTime |-> trial.trial_end_time]

\* setTrialStatus({ isInTrial: false, trialEndTime: trial.trial_end_time })
TrialFoundStatus(trial) == [isInTrial |-> FALSE, trialEndTime |-> trial.trial_end_time]

\* Mutation: only an active subscription suppresses the trial
SkipsTrial_ActiveOnly(status) == status = "active"

\* subscription?.status === 'active' || subscription?.status === 'trialing'
SkipsTrial(status) == status = "active" \/ status = "trialing"

\* if (!trial.is_trial_used)
NeedsMarkUsed(trial) == ~trial.is_trial_used

\* Mutation: the update leaves the row as it was
MarkUsed_NoWrite(table, u) == table

\* Mutation: the update flips the flag instead of setting it
MarkUsed_Toggle(table, u) == [table EXCEPT ![u].is_trial_used = ~@]

\* .update({ is_trial_used: true }).eq('user_id', user.id)
MarkUsed(table, u) == [table EXCEPT ![u].is_trial_used = TRUE]

DoneRuns == {i \in 1..Len(runs) : runs[i].pc = "done"}

\* one call of checkTrialStatus: the user.id of its closure, where it is
\* suspended, what its reads returned, and what it did
NewRun(u) ==
    [user |-> u, pc |-> "readSubscription", status |-> "none", trial |-> NoTrial,
     result |-> DefaultTrialStatus, wrote |-> FALSE, failed |-> FALSE, after |-> DoneRuns]

\* the effect on [user?.id] calls checkTrialStatus(), which runs to its first await
StartCheck(u) ==
    IF u = NoUser
    THEN /\ isLoading' = FALSE
         /\ UNCHANGED runs
    ELSE /\ runs' = Append(runs, NewRun(u))
         /\ UNCHANGED isLoading

TrialMount ==
    /\ ~trialMounted
    /\ trialMounted' = TRUE
    /\ StartCheck(user)
    /\ UNCHANGED <<authVars, subVars, navVars, dashVars, profVars, billVars, trialStatus,
                   subscriptionsTable, userTrials>>

\* useAuth() returns another user
TrialUserChange(u) ==
    /\ trialMounted
    /\ u # user
    /\ u # NoUser => Len(runs) < MaxRuns
    /\ user' = u
    /\ StartCheck(u)
    /\ UNCHANGED <<isSubscriber, isAuthLoading, subVars, navVars, dashVars, profVars, billVars,
                   trialMounted, trialStatus, subscriptionsTable, userTrials>>

\* checkTrialStatus resumes from the read of subscriptions
ReadSubscription(i, outcome) ==
    /\ runs[i].pc = "readSubscription"
    /\ LET r == runs[i]
           status == IF outcome = "ok" THEN subscriptionsTable[r.user] ELSE "none"
       IN  IF outcome = "throw"
           THEN /\ trialStatus' = DefaultTrialStatus
                /\ isLoading' = FALSE
                /\ runs' = [runs EXCEPT ![i].pc = "done", ![i].failed = TRUE,
                                        ![i].result = DefaultTrialStatus]
           ELSE IF SkipsTrial(status)
           THEN /\ trialStatus' = DefaultTrialStatus
                /\ isLoading' = FALSE
                /\ runs' = [runs EXCEPT ![i].pc = "done", ![i].status = status,
                                        ![i].result = DefaultTrialStatus]
           ELSE /\ runs' = [runs EXCEPT ![i].pc = "readTrial", ![i].status = status,
                                        ![i].failed = (outcome = "error")]
                /\ UNCHANGED <<trialStatus, isLoading>>
    /\ UNCHANGED <<authVars, subVars, navVars, dashVars, profVars, billVars, trialMounted,
                   subscriptionsTable, userTrials>>

\* checkTrialStatus resumes from the read of user_trials
ReadTrial(i, outcome) ==
    /\ runs[i].pc = "readTrial"
    /\ LET r == runs[i]
           trial == IF outcome = "ok" THEN userTrials[r.user] ELSE NoTrial
       IN  IF outcome # "ok"
           THEN \* a thrown exception, or throw trialError: the catch block
                /\ trialStatus' = DefaultTrialStatus
                /\ isLoading' = FALSE
                /\ runs' = [runs EXCEPT ![i].pc = "done", ![i].failed = TRUE,
                                        ![i].result = DefaultTrialStatus]
           ELSE IF trial.exists
           THEN /\ trialStatus' = TrialFoundStatus(trial)
                /\ IF NeedsMarkUsed(trial)
                   THEN /\ runs' = [runs EXCEPT ![i].pc = "update", ![i].trial = trial,
                                                ![i].result = TrialFoundStatus(trial)]
                        /\ UNCHANGED isLoading
                   ELSE /\ runs' = [runs EXCEPT ![i].pc = "done", ![i].trial = trial,
                                                ![i].result = TrialFoundStatus(trial)]
                        /\ isLoading' = FALSE
           ELSE /\ trialStatus' = DefaultTrialStatus
                /\ isLoading' = FALSE
                /\ runs' = [runs EXCEPT ![i].pc = "done", ![i].result = DefaultTrialStatus]
    /\ UNCHANGED <<authVars, subVars, navVars, dashVars, profVars, billVars, trialMounted,
                   subscriptionsTable, userTrials>>

\* checkTrialStatus resumes from the update of is_trial_used
UpdateTrial(i, outcome) ==
    /\ runs[i].pc = "update"
    /\ LET r == runs[i]
       IN  /\ userTrials' = IF outcome = "ok" THEN MarkUsed(userTrials, r.user) ELSE userTrials
           /\ trialStatus' = IF outcome = "throw" THEN DefaultTrialStatus ELSE trialStatus
           /\ runs' = [runs EXCEPT ![i].pc = "done",
                                   ![i].wrote = (outcome = "ok"),
                                   ![i].failed = (r.failed \/ outcome # "ok"),
                                   ![i].result = IF outcome = "throw" THEN DefaultTrialStatus
                                                 ELSE r.result]
           /\ isLoading' = FALSE
    /\ UNCHANGED <<authVars, subVars, navVars, dashVars, profVars, billVars, trialMounted,
                   subscriptionsTable>>

\* =================================================================
\* Specifications
\* =================================================================

InitBillIdle ==
    /\ isCancelModalOpen = FALSE
    /\ isCancelling = FALSE
    /\ pending = {}
    /\ invoked = "none"
    /\ unreconciled = "none"
    /\ syncCall = "none"

InitTrialIdle ==
    /\ trialMounted = FALSE
    /\ trialStatus = DefaultTrialStatus
    /\ isLoading = TRUE
    /\ subscriptionsTable = [u \in Users |-> "none"]
    /\ userTrials = [u \in Users |-> NoTrial]
    /\ runs = <<>>

InitPagesIdle ==
    /\ page = "login"
    /\ navTarget = "none"
    /\ routerCalls = {}
    /\ subscription = NoSub
    /\ isSubLoading = TRUE
    /\ hasCheckedSubscription = FALSE
    /\ authTimeout = FALSE
    /\ dashEffects = {}
    /\ dashTimer = TimerOff
    /\ refreshAwait = FALSE
    /\ error = "none"
    /\ profEffects = {}
    /\ loop = NoLoop
    /\ orphans = [k \in 1..MaxOrphans |-> NoLoop]
    /\ autoRefreshCalls = 0

\* A page has just mounted: its first render is committed, its effects are
\* still to run.
Init ==
    /\ page \in {"dashboard", "profile"}
    /\ navTarget = "none"
    /\ routerCalls = {}
    /\ user \in PageUsers
    /\ isSubscriber \in BOOLEAN
    /\ isAuthLoading \in BOOLEAN
    /\ subscription = NoSub
    /\ isSubLoading \in BOOLEAN
    /\ hasCheckedSubscription = FALSE
    /\ authTimeout = FALSE
    /\ dashEffects = IF page = "dashboard" THEN DashEffectNames ELSE {}
    /\ dashTimer = TimerOff
    /\ refreshAwait = FALSE
    /\ error = "none"
    /\ profEffects = IF page = "profile" THEN ProfileEffectNames ELSE {}
    /\ loop = NoLoop
    /\ orphans = [k \in 1..MaxOrphans |-> NoLoop]
    /\ autoRefreshCalls = 0
    /\ InitBillIdle
    /\ InitTrialIdle

Next ==
    \/ \E u \in PageUsers, s \in BOOLEAN, l \in BOOLEAN : AuthUpdate(u, s, l)
    \/ \E sub \in LoadedSubscriptions, l \in BOOLEAN, threw \in BOOLEAN : SubUpdate(sub, l, threw)
    \/ FetchIdentityChange
    \/ FlushDashEffects
    \/ DashTimerFire
    \/ \E ok \in FetchOutcomes : DashRefreshSettle(ok)
    \/ \E threw \in BOOLEAN : FlushProfileEffects(threw)
    \/ AttemptRefresh
    \/ \E ok \in FetchOutcomes : FetchSettle(ok)
    \/ \E k \in 1..MaxOrphans : OrphanAttemptRefresh(k)
    \/ \E k \in 1..MaxOrphans, ok \in FetchOutcomes : OrphanFetchSettle(k, ok)
    \/ GoToDashboard
    \/ Navigate

Spec == Init /\ [][Next]_vars

\* The pages without the auto-refresh timers of Profile, which call neither
\* the router nor a setter that an effect depends on.
NextNav ==
    \/ \E u \in PageUsers, s \in BOOLEAN, l \in BOOLEAN : AuthUpdate(u, s, l)
    \/ \E sub \in Subscriptions \cup {NoSub}, l \in BOOLEAN, threw \in BOOLEAN : SubUpdate(sub, l, threw)
    \/ FetchIdentityChange
    \/ FlushDashEffects
    \/ DashTimerFire
    \/ \E ok \in FetchOutcomes : DashRefreshSettle(ok)
    \/ \E threw \in BOOLEAN : FlushProfileEffects(threw)
    \/ GoToDashboard
    \/ Navigate

\* React flushes the effects of a commit and a requested navigation completes.
FairNav ==
    /\ Init
    /\ [][NextNav]_vars
    /\ WF_vars(FlushDashEffects)
    /\ WF_vars(\E threw \in BOOLEAN : FlushProfileEffects(threw))
    /\ WF_vars(Navigate)

\* React flushes the effects of a commit, armed timers fire, awaited promises
\* settle (one way or the other) and a requested navigation completes.
Fairness ==
    /\ WF_vars(FlushDashEffects)
    /\ WF_vars(DashTimerFire)
    /\ WF_vars(\E ok \in FetchOutcomes : DashRefreshSettle(ok))
    /\ WF_vars(\E threw \in BOOLEAN : FlushProfileEffects(threw))
    /\ WF_vars(AttemptRefresh)
    /\ WF_vars(\E ok \in FetchOutcomes : FetchSettle(ok))
    /\ \A k \in 1..MaxOrphans : WF_vars(OrphanAttemptRefresh(k))
    /\ \A k \in 1..MaxOrphans : WF_vars(\E ok \in FetchOutcomes : OrphanFetchSettle(k, ok))
    /\ WF_vars(Navigate)

FairSpec == Spec /\ Fairness

\* useTrialStatus over every content of the two tables
\* ProfileContent with a signed-in user has just mounted, the subscription
\* already loaded by useSubscription
InitBilling ==
    /\ page = "profile"
    /\ navTarget = "none"
    /\ routerCalls = {}
    /\ user = "u1"
    /\ isSubscriber = FALSE
    /\ isAuthLoading = FALSE
    /\ subscription \in Subscriptions \cup {NoSub}
    /\ isSubLoading = FALSE
    /\ hasCheckedSubscription = FALSE
    /\ authTimeout = FALSE
    /\ dashEffects = {}
    /\ dashTimer = TimerOff
    /\ refreshAwait = FALSE
    /\ error = "none"
    /\ profEffects = ProfileEffectNames
    /\ loop = NoLoop
    /\ orphans = [k \in 1..MaxOrphans |-> NoLoop]
    /\ autoRefreshCalls = 0
    /\ InitBillIdle
    /\ InitTrialIdle

NextBilling ==
    \/ \E threw \in BOOLEAN : FlushProfileEffects(threw)
    \/ \E sub \in Subscriptions \cup {NoSub}, threw \in BOOLEAN : SubUpdate(sub, FALSE, threw)
    \/ \E ok \in SyncOutcomes : SyncSettle(ok)
    \/ OpenCancelModal
    \/ \E kind \in {"cancel", "reactivate"} : HandlerStart(kind)
    \/ \E kind \in {"cancel", "reactivate"}, r \in Responses : HandlerSettle(kind, r)

SpecBilling == InitBilling /\ [][NextBilling]_vars

InitTrial ==
    /\ user = NoUser
    /\ isSubscriber = FALSE
    /\ isAuthLoading = FALSE
    /\ InitPagesIdle
    /\ InitBillIdle
    /\ trialMounted = FALSE
    /\ trialStatus = DefaultTrialStatus
    /\ isLoading = TRUE
    /\ subscriptionsTable \in [Users -> TableStatuses]
    /\ userTrials \in [Users -> UNION {TrialRows(u) : u \in Users} \cup {NoTrial}]
    /\ \A u \in Users : userTrials[u] \in TrialRows(u) \cup {NoTrial}
    /\ runs = <<>>

NextTrial ==
    \/ TrialMount
    \/ \E u \in AuthUsers : TrialUserChange(u)
    \/ \E i \in 1..Len(runs), o \in Outcomes : ReadSubscription(i, o)
    \/ \E i \in 1..Len(runs), o \in Outcomes : ReadTrial(i, o)
    \/ \E i \in 1..Len(runs), o \in Outcomes : UpdateTrial(i, o)

SpecTrial == InitTrial /\ [][NextTrial]_vars

\* =================================================================
\* Properties
\* =================================================================

DashRouterCalls == routerCalls \cap {"dashboard.subscriptionCheck", "dashboard.authCheck"}
EffectRouterCalls == DashRouterCalls \cup (routerCalls \cap {"profile.authCheck"})

\* C1: the Dashboard renders its gated content only while a loaded
\* subscription (isSubLoading false) has status 'active' or 'trialing'.
C1_FailClosedGate ==
    (page = "dashboard" /\ DashView = "content")
        => (~isSubLoading /\ hasValidSubscription(subscription))

\* C2: no effect of the Dashboard calls router.replace for a signed-in user
\* whose loaded subscription has status 'active' or 'trialing'.
C2_NoRedirectWhenEntitled ==
    (user # NoUser /\ ~isSubLoading /\ hasValidSubscription(subscription))
        => DashRouterCalls = {}

\* C3: every router.replace call of the Dashboard happens with both auth
\* loading and subscription loading completed.
C3_NoRedirectWhilePending ==
    DashRouterCalls # {} => (~isAuthLoading /\ ~isSubLoading)

DashLoadedWithoutSubscription ==
    /\ page = "dashboard"
    /\ ~isSubLoading
    /\ ~hasValidSubscription(subscription)

\* C4: once subscription loading has completed without a valid subscription
\* the Dashboard eventually calls router.replace('/profile'), and only the
\* "Go to Dashboard" button of Profile, never one of its effects, navigates
\* to /dashboard.
C4_OneWayRedirect ==
    /\ [](DashLoadedWithoutSubscription => <>(navTarget = "/profile"))
    /\ [][(navTarget' = "/dashboard" /\ navTarget # "/dashboard")
            => routerCalls' = {"profile.goToDashboard"}]_vars

C4_Witness ==
    /\ page = "dashboard"
    /\ user # NoUser
    /\ subscription.status = "canceled"
    /\ ~isSubLoading
    /\ routerCalls = {"dashboard.subscriptionCheck"}
    /\ navTarget = "/profile"

\* C5: an effect of either page that redirects a resolved null user sends it
\* to /login, and no effect redirects to /login while auth is loading.
C5_NullUserToLogin ==
    /\ (EffectRouterCalls # {} /\ user = NoUser /\ ~isAuthLoading) => navTarget = "/login"
    /\ (EffectRouterCalls # {} /\ navTarget = "/login") => ~isAuthLoading

\* C6: while isLoadingSubscription stays true, attemptRefresh calls
\* fetchSubscription at most MAX_REFRESH_ATTEMPTS times, over all runs of the
\* effect.
C6_AtMostThreeAttempts ==
    (page = "profile" /\ isLoadingSubscription) => autoRefreshCalls <= MAX_REFRESH_ATTEMPTS

ProfileSilentSpinner == page = "profile" /\ ProfileView = "spinner"
DashSilentSpinner == page = "dashboard" /\ DashView = "verifying"

\* C7: neither page shows its spinner without a manual-retry message forever.
C7_NoUnboundedSpinner ==
    /\ ~<>[]ProfileSilentSpinner
    /\ ~<>[]DashSilentSpinner

\* C8: once Profile is unmounted, no closure of its auto-refresh effect
\* acts: none calls fetchSubscription, sets a timer or calls setError.
C8_NoRefreshAfterTeardown ==
    [][(page = "login" /\ page' = "login") =>
         \A k \in 1..MaxOrphans :
            \* no setTimeout after the awaited fetchSubscription
            /\ ~(orphans[k].phase = "await" /\ orphans'[k].phase = "timer")
            \* no timer fires into attemptRefresh (fetchSubscription or setError)
            /\ ~(orphans[k].phase = "timer" /\ orphans'[k] # orphans[k])]_vars

\* C9: the hook never reports isInTrial = true, whatever the users and the
\* stored rows (a trial_end_time in the future included), and the step that
\* reads a trial row reports that row's trial_end_time.
C9_NeverInTrial ==
    /\ [](trialStatus.isInTrial = FALSE)
    /\ [][\A i \in 1..Len(runs) :
            (runs[i].pc = "readTrial" /\ runs'[i].pc # "readTrial" /\ runs'[i].trial.exists)
                => trialStatus' = [isInTrial |-> FALSE,
                                   trialEndTime |-> userTrials[runs[i].user].trial_end_time]]_vars

\* a row whose trial_end_time is in the future has been read and reported
C9_Witness ==
    /\ trialStatus.trialEndTime = FutureTime
    /\ \E i \in 1..Len(runs) : runs[i].trial.exists /\ runs[i].trial.trial_end_time = FutureTime

\* a call of checkTrialStatus that ended with every store operation succeeding
Succeeded(i) == i \in DoneRuns /\ ~runs[i].failed

C11_FailureGivesDefault ==
    [][\A i \in 1..Len(runs) :
          (runs[i].pc # "done" /\ runs'[i].pc = "done" /\ runs'[i].failed)
              => trialStatus' = DefaultTrialStatus]_vars

\* C12: in every step is_trial_used of a row stays true once it is true, and
\* the hook neither creates nor removes a row nor changes its trial_end_time.
C12_TrialUsedMonotonic ==
    [][\A u \in Users :
          /\ userTrials[u].is_trial_used => userTrials'[u].is_trial_used
          /\ userTrials'[u].exists = userTrials[u].exists
          /\ userTrials'[u].trial_end_time = userTrials[u].trial_end_time]_vars

\* one call has marked a row used, and a call for a user without a row has
\* ended
C12_Witness ==
    /\ \E i \in 1..Len(runs) : runs[i].wrote /\ userTrials[runs[i].user].is_trial_used
    /\ \E j \in 1..Len(runs) : Succeeded(j) /\ ~userTrials[runs[j].user].exists

\* C13: the step in which a call reads the subscription status 'active' or
\* 'trialing' ends the call, reports the default status and leaves
\* user_trials as it is; such a call has neither read nor written a trial
\* row.
C13_SubscribedShortCircuits ==
    /\ [][\A i \in 1..Len(runs) :
            (runs[i].pc = "readSubscription" /\ runs'[i].status \in {"active", "trialing"})
                => /\ runs'[i].pc = "done"
                   /\ trialStatus' = [isInTrial |-> FALSE, trialEndTime |-> "null"]
                   /\ userTrials' = userTrials]_vars
    /\ [](\A i \in 1..Len(runs) :
            runs[i].status \in {"active", "trialing"}
                => (runs[i].pc = "done" /\ ~runs[i].trial.exists /\ ~runs[i].wrote))

\* a call for a subscribed user who has an unused trial row has ended
C13_Witness ==
    \E i \in 1..Len(runs) :
        /\ runs[i].pc = "done"
        /\ runs[i].status \in {"active", "trialing"}
        /\ userTrials[runs[i].user].exists
        /\ ~userTrials[runs[i].user].is_trial_used
        /\ trialStatus = DefaultTrialStatus

\* an effect that will call syncWithStripe or fetchSubscription is still to
\* run, or a timer of the auto-refresh loop is armed
ReconcileScheduled ==
    \/ profEffects # {}
    \/ loop.phase = "timer"
    \/ \E k \in 1..MaxOrphans : orphans[k].phase = "timer"

\* C14: when a cancel or reactivate request has been acknowledged and no
\* call of fetchSubscription or syncWithStripe has started since, one is
\* still to come.
C14_ReconcilesAfterAck ==
    (page = "profile" /\ unreconciled # "none") => ReconcileScheduled

\* C15: a call of a handler while the subscription has no
\* stripe_subscription_id sends no request and changes no state.
C15_NoRequestWithoutStripeId ==
    [][(invoked' # invoked /\ subscription.stripe_subscription_id = "none")
          => /\ pending' = pending
             /\ routerCalls' = {}
             /\ UNCHANGED <<subVars, navTarget, profVars, isCancelModalOpen, isCancelling,
                             unreconciled, syncCall>>]_vars

\* a handler has been called on a record without stripe_subscription_id
C15_Witness ==
    /\ invoked = "cancel"
    /\ subscription # NoSub
    /\ subscription.stripe_subscription_id = "none"
    /\ pending = {}
    /\ ~isCancelling

\* C16: no step of a handler, neither its call nor its resumption after the
\* request, changes the local subscription record or its loading flag.
C16_HandlersKeepLocalRecord ==
    [][(invoked' # invoked \/ pending' # pending)
          => (subscription' = subscription /\ isSubLoading' = isSubLoading)]_vars

\* a cancel request has been acknowledged and the local record still says
\* the subscription is not cancelled at period end
C16_Witness ==
    /\ unreconciled = "cancel"
    /\ "cancel" \notin pending
    /\ subscription.status = "active"
    /\ ~subscription.cancel_at_period_end

\* C17: for a loaded record shown without error, Resubscribe is offered
\* exactly for status 'canceled', Cancel exactly for 'active' or 'trialing'
\* without cancel_at_period_end, Resume and not Cancel for 'active' or
\* 'trialing' with cancel_at_period_end, and never two of the three.
C17_OneActionOffered ==
    (page = "profile" /\ ProfileView = "details") =>
        LET entitled == subscription.status \in {"active", "trialing"}
        IN  /\ OffersResubscribe <=> subscription.status = "canceled"
            /\ OffersCancel <=> (entitled /\ ~subscription.cancel_at_period_end)
            /\ (entitled /\ subscription.cancel_at_period_end) => (OffersResume /\ ~OffersCancel)
            /\ entitled => ~OffersResubscribe
            /\ ~(OffersResubscribe /\ OffersResume)
            /\ ~(OffersResubscribe /\ OffersCancel)
            /\ ~(OffersResume /\ OffersCancel)

\* a trialing subscription that ends at period end is shown, the effects of
\* the render done
C17_Witness ==
    /\ page = "profile"
    /\ ProfileView = "details"
    /\ subscription.status = "trialing"
    /\ subscription.cancel_at_period_end
    /\ OffersResume
    /\ profEffects = {}

\* C18: once a call of syncWithStripe has failed, the error 'Unable to load
\* subscription details' is set.
C18_SyncFailureSetsError ==
    (page = "profile" /\ syncCall = "rejected") => error = SyncErrorMsg

\* C19: while Profile is mounted with subscription loading completed, no
\* attemptRefresh, of the current run of the effect or of an earlier one,
\* sets a timer after its awaited fetchSubscription, and no timer fires into
\* attemptRefresh (which would call fetchSubscription or setError).
C19_LoopStopsWhenLoaded ==
    [][(page = "profile" /\ page' = "profile" /\ ~isSubLoading /\ ~isSubLoading')
          => /\ ~(loop.phase = "await" /\ loop'.phase = "timer")
             /\ ~(loop.phase = "timer" /\ loop'.phase = "await")
             /\ ~(loop.phase = "timer" /\ error # TimeoutErrorMsg /\ error' = TimeoutErrorMsg)
             /\ \A k \in 1..MaxOrphans :
                   /\ ~(orphans[k].phase = "await" /\ orphans'[k].phase = "timer")
                   /\ ~(orphans[k].phase = "timer" /\ orphans'[k] # orphans[k])]_vars

\* C20: when a call for another user was started while a call was still in
\* flight and both have ended, the reported status is the one the later
\* call set for the current user; and a call that has written marked the
\* row of its own user.
C20_LatestUserWins ==
    /\ \A i, j \in 1..Len(runs) :
          (/\ i < j /\ j = Len(runs)
           /\ runs[i].pc = "done" /\ runs[j].pc = "done"
           /\ i \notin runs[j].after
           /\ runs[i].user # runs[j].user
           /\ user = runs[j].user)
              => trialStatus = runs[j].result
    /\ \A i \in 1..Len(runs) : runs[i].wrote => userTrials[runs[i].user].is_trial_used
====
